---------------------------- MODULE Spec2Model ----------------------------
(***************************************************************************)
(* The virtual-memory manager of the Nachos teaching kernel (lab7):        *)
(* AddrSpace::AddrSpace / ~AddrSpace (addrspace.cc), PageReplace and the    *)
(* PageFaultException branch of ExceptionHandler (exception.cc).            *)
(*                                                                         *)
(* Granularity: one page of memory / swap / executable is one value.  A    *)
(* value is a record [k, a]: k = "exe" (PageSize bytes of the executable   *)
(* read at byte offset a), "usr" (the a-th store of a user program),       *)
(* "zero" (memory as the machine zeroes it) or "new" (a swap page nobody    *)
(* has written).                                                           *)
(***************************************************************************)
EXTENDS Integers, Sequences, FiniteSets, TLC

(* ------------------------------------------------------------------ *)
(* Program constants                                                   *)
(* ------------------------------------------------------------------ *)
UserStackSize == 1024
MaxPages == 32
MinPages == 16
CodePages == 8
DataPages == 24
NumSpaceIDs == 128
\* machine.h is not among the sources: the stock Nachos machine
PageSize == 128
NumPhysPages == 32
\* sizeof(NoffHeader): the magic word and three segments of three words
NoffHeaderSize == 40
\* disk.h and filehdr.h are not among the sources: the stock Nachos disk, a
\* header of one sector and an index block of one sector
SectorSize == 128
NumSectors == 1024
NumDirect == 30
NumDirect_Second == 32

(* ------------------------------------------------------------------ *)
(* Bounds of the model                                                 *)
(* ------------------------------------------------------------------ *)
\* live address spaces at any time
MaxSpaces == 2
\* page faults served in one run
MaxFaults == 4
\* user-program memory accesses in one run
MaxAccess == 1
\* a user program touches the top page of its stack and this many pages below it
MaxTouched == 3
\* entries of the working-set tables the policy specification starts from
MaxLoaded == 3
\* calls of PageReplace in one run of the policy specification
MaxScans == 2
\* page faults served in one run of the lifecycle specification
MaxLifeFaults == 8

\* page faults served in one long run of faults
MaxDrainFaults == 20

\* threads of one run, and page faults of one run of the threads
MaxThreads == 4
MaxThreadFaults == 3

\* Seek, Read and Write calls on the open file in one run
MaxFileOps == 2

(* ------------------------------------------------------------------ *)
(* Helpers                                                             *)
(* ------------------------------------------------------------------ *)
divRoundUp(n, s) == (n + s - 1) \div s

Min(S) == CHOOSE x \in S : \A y \in S : x <= y

Frames == 0 .. (NumPhysPages - 1)
Slots == 0 .. (MaxPages - 1)

Val(kind, n) == [k |-> kind, a |-> n]

\* BitMap::Find(): the lowest clear bit, which it sets; -1 when none is clear
Find(bm) == IF Frames \ bm = {} THEN -1 ELSE Min(Frames \ bm)
Mark(bm, f) == IF f = -1 THEN bm ELSE bm \cup {f}
NumClear(bm) == Cardinality(Frames \ bm)

\* the results of n consecutive Find() calls starting from bm
RECURSIVE FindSeq(_, _)
FindSeq(bm, n) ==
    IF n = 0 THEN << >>
    ELSE LET f == Find(bm) IN << f >> \o FindSeq(Mark(bm, f), n - 1)

RECURSIVE MarkAll(_, _)
MarkAll(bm, fs) == IF fs = << >> THEN bm ELSE MarkAll(Mark(bm, Head(fs)), Tail(fs))

\* "for (vpc...) if (vpTable[vpc] == -1) { vpTable[vpc] = i; break; }"
Insert(t, p) ==
    IF \E j \in Slots : t[j] = -1
    THEN [t EXCEPT ![Min({j \in Slots : t[j] = -1})] = p]
    ELSE t

EmptyTable == [j \in Slots |-> -1]

\* the pages lo, lo+1, ..., hi-1 as a sequence
Range(lo, hi) == [j \in 1 .. (IF hi > lo THEN hi - lo ELSE 0) |-> lo + j - 1]

(* ------------------------------------------------------------------ *)
(* Executables: NOFF headers (sizes and addresses in bytes)            *)
(* ------------------------------------------------------------------ *)
Noff(cs, ds, us) ==
    [codeSize |-> cs, codeVA |-> 0, codeIn |-> NoffHeaderSize,
     initSize |-> ds, initVA |-> cs, initIn |-> NoffHeaderSize + cs,
     uninitSize |-> us,
     \* noffMagic is NOFFMAGIC, as read or after SwapHeader
     magic |-> TRUE]

\* 22 pages, demand paged; 11 pages, no swap file; 40 pages, 33 eager frames;
\* a file that is not a NOFF executable
Programs ==
    << Noff(8 * PageSize, 6 * PageSize, 0),
       Noff(2 * PageSize, 1 * PageSize, 0),
       Noff(8 * PageSize, 24 * PageSize, 0),
       [Noff(2 * PageSize, 1 * PageSize, 0) EXCEPT !.magic = FALSE] >>

NumProgs == Len(Programs)

\* the length of the executable file: header, code, initialized data
ExeLength(h) == NoffHeaderSize + h.codeSize + h.initSize

\* executable->ReadAt(into, PageSize, off): nothing is transferred at or past the
\* end of the file, and "into" keeps what it held
ExeRead(h, off, old) == IF off >= ExeLength(h) THEN old ELSE Val("exe", off)

(* ------------------------------------------------------------------ *)
(* State                                                               *)
(* ------------------------------------------------------------------ *)
VARIABLES
    ThreadMap,   \* the space IDs in use
    bitmap,      \* the frames whose bit is set
    spaces,      \* spaceID -> [numPages, count, vm, pageTable] of the live spaces
    vpTable,     \* the global working-set table, -1 = empty slot
    mainMemory,  \* frame -> value
    swap,        \* the file "SwapFile": page -> value (<< >> before it is created)
    status,      \* "run", "abort" (an ASSERT failed), "ub" (undefined behaviour)
    last,        \* what the latest operation was given and what it did
    written,     \* <<spaceID, page>> -> the value a user program last stored there
    nFaults, nAccess,
    sched        \* the threads, the ready list and the globals "space" of exception.cc

\* the file system (lab4, lab5): one file, its header and the disk
VARIABLES
    freeMap,      \* the sectors whose bit is set in the free-sector map
    hdr,          \* the FileHeader: numBytes, numSectors, dataSectors
    disk,         \* sector -> what was last written to it
    seekPosition, \* of the OpenFile
    junk,         \* what a word of memory that was never assigned holds
    fres,         \* what the latest file operation was given and what it returned
    fstatus,      \* "none", "open", "failed", "gone", "abort"
    nFileOps

\* ThreadTest (lab2): the caller, the four forked threads and the scheduler
VARIABLES test

fsvars == << freeMap, hdr, disk, seekPosition, junk, fres, fstatus, nFileOps >>

vmvars == << ThreadMap, bitmap, spaces, vpTable, mainMemory, swap, status, last,
             written, nFaults, nAccess, sched >>

vars == << ThreadMap, bitmap, spaces, vpTable, mainMemory, swap, status, last,
           written, nFaults, nAccess, sched,
           freeMap, hdr, disk, seekPosition, junk, fres, fstatus, nFileOps, test >>

\* no user thread
NoSched == [cur |-> 0, ready |-> << >>, space |-> -1, thr |-> << >>]

Entry(vp, pp, v) ==
    [virtualPage |-> vp, physicalPage |-> pp, valid |-> v, use |-> FALSE, dirty |-> FALSE]

NoOp ==
    [op |-> "none", s |-> -1, page |-> -1, type |-> "", victim |-> -1,
     victimDirty |-> FALSE, evicted |-> FALSE, log |-> << >>, exe |-> Noff(0, 0, 0)]

(* ------------------------------------------------------------------ *)
(* AddrSpace::AddrSpace                                                *)
(* ------------------------------------------------------------------ *)
\* lines 176-190 (code, alloc = FALSE) and 227-243 (data, alloc = TRUE): the frame
\* of page i is filled from the file at base + i * PageSize, the entry is made valid
\* and the page enters vpTable
RECURSIVE LoadPages(_, _, _, _, _)
LoadPages(st, ps, h, base, alloc) ==
    IF ps = << >> THEN st
    ELSE LET i == Head(ps) IN
      IF i \notin DOMAIN st.pt
      THEN LoadPages([st EXCEPT !.ub = TRUE], Tail(ps), h, base, alloc)
      ELSE
        LET find == alloc /\ ~st.pt[i].valid
            f == IF find THEN Find(st.bm) ELSE st.pt[i].physicalPage
            ok == f \in Frames
            nx == [bm |-> IF find THEN Mark(st.bm, f) ELSE st.bm,
                   pt |-> [st.pt EXCEPT ![i].physicalPage = f, ![i].valid = TRUE],
                   mem |-> IF ok
                           THEN [st.mem EXCEPT ![f] = ExeRead(h, base + i * PageSize, @)]
                           ELSE st.mem,
                   t |-> Insert(st.t, i),
                   \* a transfer to a frame that does not exist
                   ub |-> st.ub \/ (~ok /\ base + i * PageSize < ExeLength(h))]
        IN LoadPages(nx, Tail(ps), h, base, alloc)

\* swapFile->WriteAt(buffer, PageSize, pos): the page at pos takes the buffer
SwapPut(sw, pos, v) ==
    IF pos \div PageSize \in DOMAIN sw THEN [sw EXCEPT ![pos \div PageSize] = v] ELSE sw

\* lines 192-202: the code segment goes to the swap file, page by page
RECURSIVE SwapCode(_, _, _, _)
SwapCode(sw, h, j, k) ==
    IF j > k THEN sw
    ELSE SwapCode(SwapPut(sw, h.codeVA + j * PageSize, Val("exe", h.codeIn + j * PageSize)),
                  h, j + 1, k)

\* lines 246-255: the data segment's full pages go to the swap file; the last
\* piece is read from the executable and then READ from the swap file (line 255)
RECURSIVE SwapData(_, _, _, _, _)
SwapData(sw, h, ds, j, k) ==
    IF j >= k THEN sw
    ELSE SwapData(SwapPut(sw, h.initVA + (j - ds) * PageSize,
                          Val("exe", h.initIn + (j - ds) * PageSize)),
                  h, ds, j + 1, k)

NumPagesOf(h) == divRoundUp(h.codeSize + h.initSize + h.uninitSize + UserStackSize, PageSize)

\* the constructor from line 74 on, for a header h
Construct(h) ==
    LET numPages == NumPagesOf(h)
        vm == numPages > MinPages
        phPages == IF vm THEN MinPages ELSE numPages
        \* fileSystem->Create(vmName, size): a new file of numPages pages, or the
        \* file of that name that exists already
        sw0 == IF vm /\ swap = << >> THEN [p \in 0 .. (numPages - 1) |-> Val("new", 0)]
               ELSE swap
        c0 == divRoundUp(h.codeSize, PageSize)
        coPages == IF c0 > CodePages THEN CodePages ELSE c0
        f1 == FindSeq(bitmap, coPages)
        bm1 == MarkAll(bitmap, f1)
        fl == Find(bm1)
        pt0 == [i \in 0 .. (numPages - 1) |->
                  IF i = numPages - 1 THEN Entry(i, fl, TRUE)
                  ELSE IF i < coPages THEN Entry(i, f1[i + 1], FALSE)
                  ELSE Entry(i, -1, FALSE)]
        st0 == [bm |-> Mark(bm1, fl), pt |-> pt0, mem |-> mainMemory,
                t |-> Insert(EmptyTable, numPages - 1), ub |-> FALSE]
        code_start == divRoundUp(h.codeVA, PageSize)
        st1 == IF h.codeSize > 0
               THEN LoadPages(st0, Range(code_start, code_start + coPages), h, h.codeIn, FALSE)
               ELSE st0
        sw1 == IF h.codeSize > 0 /\ vm THEN SwapCode(sw0, h, 0, c0 - 1) ELSE sw0
        data_start == divRoundUp(h.initVA, PageSize)
        daPages == divRoundUp(h.initSize, PageSize)
        data_end == IF daPages <= DataPages THEN data_start + daPages
                    ELSE data_start + DataPages
        st2 == IF h.initSize > 0
               THEN LoadPages(st1, Range(data_start, data_end), h, h.initIn, TRUE)
               ELSE st1
        sw2 == IF h.initSize > 0 /\ vm
               THEN SwapData(sw1, h, data_start, data_start, daPages - 1 + data_start)
               ELSE sw1
        count == coPages + 1 + (IF h.initSize > 0 THEN data_end - data_start ELSE 0)
    IN  [assert |-> phPages <= NumClear(bitmap),
         space |-> [numPages |-> numPages, count |-> count, vm |-> vm, pageTable |-> st2.pt],
         bm |-> st2.bm, mem |-> st2.mem, t |-> st2.t, sw |-> sw2, ub |-> st2.ub]

\* "ThreadMap[i] = 1", line 67, left out
MarkIDNot(tm, id) == tm

\* "ThreadMap[i] = 1", line 67
MarkID(tm, id) == tm \cup {id}

Build(h) ==
    /\ status = "run"
    /\ LET free == (0 .. (NumSpaceIDs - 1)) \ ThreadMap IN
       IF free = {}
       THEN \* ASSERT(flag), line 72
            /\ status' = "abort"
            /\ last' = [NoOp EXCEPT !.op = "create"]
            /\ UNCHANGED << ThreadMap, bitmap, spaces, vpTable, mainMemory, swap >>
       ELSE
         LET id == Min(free)
             r == Construct(h)
         IN
           /\ ThreadMap' = MarkID(ThreadMap, id)
           /\ last' = [NoOp EXCEPT !.op = "create", !.s = id, !.exe = h,
                                   !.type = IF h.magic THEN "" ELSE "bad magic"]
           /\ IF ~h.magic
              THEN \* ASSERT(noffH.noffMagic == NOFFMAGIC), line 86
                   /\ status' = "abort"
                   /\ vpTable' = EmptyTable
                   /\ UNCHANGED << bitmap, spaces, mainMemory, swap >>
              ELSE IF ~r.assert
              THEN \* ASSERT(phPages <= bitmap->NumClear()), line 115
                   /\ status' = "abort"
                   /\ vpTable' = EmptyTable
                   /\ UNCHANGED << bitmap, spaces, mainMemory, swap >>
              ELSE /\ status' = IF r.ub THEN "ub" ELSE "run"
                   /\ bitmap' = r.bm
                   /\ spaces' = [s \in DOMAIN spaces \cup {id} |->
                                   IF s = id THEN r.space ELSE spaces[s]]
                   /\ vpTable' = r.t
                   /\ mainMemory' = r.mem
                   /\ swap' = r.sw
    /\ UNCHANGED << written, nFaults, nAccess, fsvars, test >>

\* a create by the kernel on its own, no user thread involved
Create(h) ==
    /\ Cardinality(DOMAIN spaces) < MaxSpaces
    /\ Build(h)
    /\ UNCHANGED sched

(* ------------------------------------------------------------------ *)
(* PageReplace                                                         *)
(* ------------------------------------------------------------------ *)
\* vpTable with the memory next to it: adj.lo is the word before vpTable[0],
\* adj.hi the word after vpTable[MaxPages - 1]; the scan is taken to stop on
\* the word after that
Ext(t, adj) ==
    [j \in -1 .. (MaxPages + 1) |->
        IF j = -1 THEN adj.lo
        ELSE IF j \in Slots THEN t[j]
        ELSE IF j = MaxPages THEN adj.hi
        ELSE -1]

\* "for (i = 0; i < count; i++) vpTable[i] = vpTable[i + 1]; vpTable[count - 1] = -1;"
Shift(E, count) ==
    [j \in DOMAIN E |->
        IF j = count - 1 THEN -1
        ELSE IF j \in 0 .. (count - 1) THEN E[j + 1]
        ELSE E[j]]

\* "while (vpTable[count] != -1) count++;"
ScanCount(E) == Min({c \in 0 .. (MaxPages + 1) : E[c] = -1})

Cut(E) == [j \in Slots |-> E[j]]

\* lines 86-98
ReplaceFIFO(t, adj) ==
    LET E == Ext(t, adj)
        count == ScanCount(E)
    IN  [readySwap |-> E[count - 1],
         t |-> Cut(Shift(E, count)),
         ub |-> count = 0 \/ count > MaxPages,
         count |-> count]

\* lines 99-106
ReplaceLIFO(t, adj) ==
    LET E == Ext(t, adj)
        count == ScanCount(E)
    IN  [readySwap |-> E[count - 1],
         t |-> Cut([E EXCEPT ![count - 1] = -1]),
         ub |-> count = 0 \/ count > MaxPages,
         count |-> count]

\* lines 110-130 (enhanced = FALSE) and 131-151 (enhanced = TRUE).  readySwap stays
\* vpTable[0] while the loop runs; "use == FALSE;" compares and stores nothing
ReplaceClock(t, pt, adj, enhanced) ==
    LET E == Ext(t, adj)
        first == t[0]
        inTable == first \in DOMAIN pt
        use == IF inTable THEN pt[first].use ELSE adj.bit
        dirty == IF inTable THEN pt[first].dirty ELSE adj.bit
        stop == ~use /\ (enhanced => ~dirty)
        full == {c \in Slots : t[c] # -1}
        count == IF stop /\ full # {} THEN Min(full) ELSE MaxPages
    IN  [readySwap |-> IF count = MaxPages THEN first ELSE E[count - 1],
         t |-> Cut(Shift(E, count)),
         ub |-> ~inTable \/ count = 0,
         count |-> count]

PageReplace(type, t, pt, adj) ==
    CASE type = "FIFO" -> ReplaceFIFO(t, adj)
      [] type = "LIFO" -> ReplaceLIFO(t, adj)
      [] type = "CLOCK" -> ReplaceClock(t, pt, adj, FALSE)
      [] type = "ENHANCED_CLOCK" -> ReplaceClock(t, pt, adj, TRUE)

\* the indices at which one call reads or writes vpTable: the scan reads
\* vpTable[0 .. count] (the loops of lines 91, 102, 115 and 136, and the
\* "vpTable[i + 1]" of the shifts), and "vpTable[count - 1]" is read and written
VpTouched(type, t, pt, adj) ==
    LET count == PageReplace(type, t, pt, adj).count
    IN (0 .. count) \cup {count - 1}

\* the indices at which one call reads the page table: CLOCK and ENHANCED_CLOCK
\* read pageTable[readySwap], readySwap = vpTable[0], for every slot that is not
\* empty (lines 117-118 and 138-140)
PtTouched(type, t, pt, adj) ==
    IF type \in {"CLOCK", "ENHANCED_CLOCK"} /\ \E j \in Slots : t[j] # -1
    THEN {t[0]}
    ELSE {}

\* what the words next to vpTable, and a flag read outside a page table, may hold
AdjWords == [lo : {-1, 0}, hi : {-1, 0}, bit : BOOLEAN]

(* ------------------------------------------------------------------ *)
(* ExceptionHandler, PageFaultException                                *)
(* ------------------------------------------------------------------ *)
\* swapFile->ReadAt(&mainMemory[f * PageSize], PageSize, page * PageSize)
SwapGet(sw, page, old) == IF page \in DOMAIN sw THEN sw[page] ELSE old

\* "for (j...) if (vpTable[j] == readySwap) { vpTable[j] = -1; break; }"
Remove(t, p) ==
    IF \E j \in Slots : t[j] = p
    THEN [t EXCEPT ![Min({j \in Slots : t[j] = p})] = -1]
    ELSE t

\* the policy the handler is compiled with (line 279)
HandlerPolicy == "FIFO"

\* lines 265-275: a free frame and count < MaxPages
FaultLoad(s, page) ==
    LET sp == spaces[s]
        pt == sp.pageTable
        f == Find(bitmap)
        mapped == page \in DOMAIN pt
    IN
      /\ bitmap' = Mark(bitmap, f)
      /\ spaces' = [spaces EXCEPT ![s].count = @ + 1,
                       ![s].pageTable = IF mapped
                           THEN [pt EXCEPT ![page].physicalPage = f, ![page].valid = TRUE,
                                           ![page].use = TRUE, ![page].dirty = FALSE]
                           ELSE pt]
      /\ mainMemory' = IF mapped THEN [mainMemory EXCEPT ![f] = SwapGet(swap, page, @)]
                       ELSE mainMemory
      /\ vpTable' = IF mapped THEN Insert(vpTable, pt[page].virtualPage) ELSE vpTable
      /\ swap' = swap
      /\ status' = IF mapped THEN "run" ELSE "ub"
      /\ last' = [NoOp EXCEPT !.op = "fault", !.s = s, !.page = page,
                              !.log = << <<"read", page>>, <<"valid", page>> >>]

\* The eviction path works on st = [pt, sw, mem, t, log]: the faulting space's page
\* table, the swap file, memory, vpTable and the swap-file transfers and validity
\* changes made so far, in order.

\* lines 281-287: a dirty victim's frame goes to the swap file, at
\* pageTable[page].virtualPage * PageSize
WriteBack(st, readySwap, page) ==
    IF st.pt[readySwap].dirty
    THEN [st EXCEPT
            !.sw = IF st.pt[readySwap].physicalPage \in Frames
                   THEN SwapPut(@, st.pt[page].virtualPage * PageSize,
                                st.mem[st.pt[readySwap].physicalPage])
                   ELSE @,
            !.pt[readySwap].dirty = FALSE,
            !.log = Append(@, <<"write", readySwap>>)]
    ELSE st

\* lines 289-296: the victim is demoted and leaves vpTable
Release(st, readySwap) ==
    [st EXCEPT !.pt[readySwap].valid = FALSE,
               !.t = Remove(@, readySwap),
               !.log = Append(@, <<"invalid", readySwap>>)]

\* lines 298-303: the faulting page takes the victim's frame and is read in
SwapIn(st, readySwap, page) ==
    LET f == st.pt[readySwap].physicalPage IN
    [st EXCEPT !.pt[page].physicalPage = f,
               !.pt[page].valid = FALSE,
               !.pt[page].use = TRUE,
               !.pt[page].dirty = FALSE,
               !.mem = IF f \in Frames THEN [@ EXCEPT ![f] = SwapGet(st.sw, page, @)] ELSE @,
               !.log = Append(@, <<"read", page>>)]

\* line 305 alone: the faulting page becomes valid, vpTable is left as it is
MapInNoInsert(st, page) ==
    [st EXCEPT !.pt[page].valid = TRUE,
               !.log = Append(@, <<"valid", page>>)]

\* lines 305-316: the faulting page becomes valid and enters vpTable
MapIn(st, page) ==
    [st EXCEPT !.pt[page].valid = TRUE,
               !.t = Insert(@, st.pt[page].virtualPage),
               !.log = Append(@, <<"valid", page>>)]

\* the victim demoted before its write-back
EvictDemoteFirst(st, readySwap, page) ==
    MapIn(SwapIn(WriteBack(Release(st, readySwap), readySwap, page), readySwap, page), page)

\* lines 279-316 after PageReplace, in the order of the code
Evict(st, readySwap, page) ==
    MapIn(SwapIn(Release(WriteBack(st, readySwap, page), readySwap), readySwap, page), page)

\* lines 277-316: a victim is chosen and its frame is reused
FaultEvictWith(s, page, adj) ==
    LET pt == spaces[s].pageTable
        r == PageReplace(HandlerPolicy, vpTable, pt, adj)
        v == r.readySwap
        okIdx == ~r.ub /\ v \in DOMAIN pt /\ page \in DOMAIN pt
    IN
      IF ~okIdx
      THEN /\ status' = "ub"
           /\ vpTable' = r.t
           /\ last' = [NoOp EXCEPT !.op = "fault", !.s = s, !.page = page, !.victim = v,
                                   !.evicted = TRUE]
           /\ UNCHANGED << bitmap, spaces, mainMemory, swap >>
      ELSE
        LET st == Evict([pt |-> pt, sw |-> swap, mem |-> mainMemory, t |-> r.t,
                         log |-> << >>], v, page)
        IN
          /\ swap' = st.sw
          /\ spaces' = [spaces EXCEPT ![s].pageTable = st.pt]
          /\ mainMemory' = st.mem
          /\ vpTable' = st.t
          /\ bitmap' = bitmap
          /\ status' = IF pt[v].physicalPage \in Frames THEN "run" ELSE "ub"
          /\ last' = [NoOp EXCEPT !.op = "fault", !.s = s, !.page = page, !.victim = v,
                                  !.victimDirty = pt[v].dirty, !.evicted = TRUE,
                                  !.log = st.log]

\* what lies next to vpTable is not known: any of AdjWords
FaultEvict(s, page) == \E adj \in AdjWords : FaultEvictWith(s, page, adj)

\* the pages a user program touches: the top of its stack and the pages under it
Touched(sp) == (sp.numPages - 1 - MaxTouched) .. (sp.numPages - 1)

\* ExceptionHandler(PageFaultException) with BadVAddrReg in page "page" and
\* currentThread->space = s
Handle(s, page) ==
    /\ status = "run"
    /\ page \in DOMAIN spaces[s].pageTable => ~spaces[s].pageTable[page].valid
    /\ nFaults' = nFaults + 1
    /\ UNCHANGED << ThreadMap, written, nAccess, fsvars, test >>
    /\ IF ~spaces[s].vm
       THEN \* vmName was never set: Open() is given an indeterminate pointer
            /\ status' = "ub"
            /\ last' = [NoOp EXCEPT !.op = "fault", !.s = s, !.page = page]
            /\ UNCHANGED << bitmap, spaces, vpTable, mainMemory, swap >>
       ELSE IF NumClear(bitmap) >= 1 /\ spaces[s].count < MaxPages
            THEN FaultLoad(s, page)
            ELSE FaultEvict(s, page)

\* a page fault of the bounded run
Fault(s, page) == nFaults < MaxFaults /\ Handle(s, page) /\ UNCHANGED sched

(* ------------------------------------------------------------------ *)
(* The user program: a load or a store to a resident page              *)
(* ------------------------------------------------------------------ *)
Access(s, page, store) ==
    /\ status = "run"
    /\ nAccess < MaxAccess
    /\ spaces[s].pageTable[page].valid
    /\ spaces[s].pageTable[page].physicalPage \in Frames
    /\ nAccess' = nAccess + 1
    /\ spaces' = [spaces EXCEPT ![s].pageTable[page].use = TRUE,
                               ![s].pageTable[page].dirty = @ \/ store]
    /\ mainMemory' = IF store
                     THEN [mainMemory EXCEPT ![spaces[s].pageTable[page].physicalPage] =
                                                 Val("usr", nAccess + 1)]
                     ELSE mainMemory
    /\ written' = IF store
                  THEN [k \in DOMAIN written \cup {<<s, page>>} |->
                          IF k = <<s, page>> THEN Val("usr", nAccess + 1) ELSE written[k]]
                  ELSE written
    /\ last' = [NoOp EXCEPT !.op = "access", !.s = s, !.page = page]
    /\ UNCHANGED << ThreadMap, bitmap, vpTable, swap, status, nFaults, sched, fsvars, test >>

(* ------------------------------------------------------------------ *)
(* AddrSpace::~AddrSpace                                               *)
(* ------------------------------------------------------------------ *)
\* BitMap::Clear(which) asserts 0 <= which < numBits.  The loop of lines 275-276
\* from page i on: the bitmap it leaves, and whether it ran to the end
RECURSIVE ClearFrom(_, _, _)
ClearFrom(bm, pt, i) ==
    IF i \notin DOMAIN pt THEN [bm |-> bm, done |-> TRUE]
    ELSE IF pt[i].physicalPage \notin Frames THEN [bm |-> bm, done |-> FALSE]
    ELSE ClearFrom(bm \ {pt[i].physicalPage}, pt, i + 1)

Destroy(s) ==
    /\ status = "run"
    /\ LET r == ClearFrom(bitmap, spaces[s].pageTable, 0) IN
         /\ ThreadMap' = ThreadMap \ {s}
         /\ bitmap' = r.bm
         /\ status' = IF r.done THEN "run" ELSE "abort"
         /\ spaces' = IF r.done THEN [x \in DOMAIN spaces \ {s} |-> spaces[x]] ELSE spaces
         /\ written' = IF r.done
                       THEN [k \in {x \in DOMAIN written : x[1] # s} |-> written[k]]
                       ELSE written
    /\ last' = [NoOp EXCEPT !.op = "destroy", !.s = s]
    /\ UNCHANGED << vpTable, mainMemory, swap, nFaults, nAccess, sched, fsvars, test >>

(* ------------------------------------------------------------------ *)
(* The kernel                                                          *)
(* ------------------------------------------------------------------ *)
\* no file system and no thread test at work
FileIdle ==
    /\ freeMap = {}
    /\ hdr = << >>
    /\ disk = << >>
    /\ seekPosition = 0
    /\ junk = 0
    /\ fres = << >>
    /\ fstatus = "none"
    /\ nFileOps = 0

TestIdle == test = << >>

InitVM ==
    /\ ThreadMap = {}
    /\ bitmap = {}
    /\ spaces = << >>
    /\ vpTable = EmptyTable
    /\ mainMemory = [f \in Frames |-> Val("zero", 0)]
    /\ swap = << >>
    /\ status = "run"
    /\ last = NoOp
    /\ written = << >>
    /\ nFaults = 0
    /\ nAccess = 0
    /\ sched = NoSched

Init == InitVM /\ FileIdle /\ TestIdle

Next ==
    \/ \E n \in 1 .. NumProgs : Create(Programs[n])
    \/ \E s \in DOMAIN spaces :
          \E page \in Touched(spaces[s]) \cup {spaces[s].numPages} : Fault(s, page)
    \/ \E s \in DOMAIN spaces :
          \E page \in Touched(spaces[s]), store \in BOOLEAN : Access(s, page, store)
    \/ \E s \in DOMAIN spaces : Destroy(s)

Spec == Init /\ [][Next]_vars

(* ------------------------------------------------------------------ *)
(* PageReplace on its own: every policy, on the tables a single        *)
(* address space can have built                                        *)
(* ------------------------------------------------------------------ *)
PolicyTypes == {"FIFO", "LIFO", "CLOCK", "ENHANCED_CLOCK"}

\* the pages of a table, in slot order, up to the first empty slot
Loaded(t) == {j \in Slots : \A i \in 0 .. j : t[i] # -1}
NumLoaded(t) == Cardinality(Loaded(t))

\* load orders: 1 .. MaxLoaded distinct pages out of 0 .. MaxLoaded, or pages
\* 0 .. MaxPages - 1 in turn (a full table)
LoadOrders ==
    { q \in UNION {[1 .. k -> 0 .. MaxLoaded] : k \in 1 .. MaxLoaded} :
        \A i, j \in DOMAIN q : i # j => q[i] # q[j] }
    \cup { [j \in 1 .. MaxPages |-> j - 1] }

TableOf(q) == [j \in Slots |-> IF j + 1 \in DOMAIN q THEN q[j + 1] ELSE -1]

\* the page table of a space of n pages whose pages q are resident, loaded in
\* that order into frames 0, 1, ...; u and d are the pages with use / dirty set
ResidentTable(n, q, u, d) ==
    [p \in 0 .. (n - 1) |->
        IF \E j \in DOMAIN q : q[j] = p
        THEN [virtualPage |-> p,
              physicalPage |-> (CHOOSE j \in DOMAIN q : q[j] = p) - 1,
              valid |-> TRUE, use |-> p \in u, dirty |-> p \in d]
        ELSE Entry(p, -1, FALSE)]

PolicyPages == NumPagesOf(Programs[3])

InitPolicy ==
    \E q \in LoadOrders : \E u, d \in SUBSET (0 .. MaxLoaded) :
        /\ u \cup d \subseteq {q[j] : j \in DOMAIN q}
        /\ ThreadMap = {0}
        /\ bitmap = 0 .. (Len(q) - 1)
        /\ spaces = [s \in {0} |->
                       [numPages |-> PolicyPages, count |-> Len(q), vm |-> TRUE,
                        pageTable |-> ResidentTable(PolicyPages, q, u, d)]]
        /\ vpTable = TableOf(q)
        /\ mainMemory = [f \in Frames |-> Val("zero", 0)]
        /\ swap = [p \in 0 .. (PolicyPages - 1) |-> Val("new", 0)]
        /\ status = "run"
        /\ last = NoOp
        /\ written = << >>
        /\ nFaults = 0
        /\ nAccess = 0
        /\ sched = NoSched
        /\ FileIdle
        /\ TestIdle

\* one call PageReplace(type) with currentThread->space = space 0
Replace(type, adj) ==
    /\ status = "run"
    /\ nFaults < MaxScans
    /\ LET r == PageReplace(type, vpTable, spaces[0].pageTable, adj) IN
         /\ vpTable' = r.t
         /\ status' = IF r.ub THEN "ub" ELSE "run"
         /\ last' = [NoOp EXCEPT !.op = "replace", !.s = 0, !.type = type,
                                 !.victim = r.readySwap]
    /\ nFaults' = nFaults + 1
    /\ UNCHANGED << ThreadMap, bitmap, spaces, mainMemory, swap, written, nAccess, sched, fsvars, test >>

NextPolicy == \E type \in PolicyTypes, adj \in AdjWords : Replace(type, adj)

SpecPolicy == InitPolicy /\ [][NextPolicy]_vars

(* ------------------------------------------------------------------ *)
(* Lifecycle: address spaces that load their pages from the lowest     *)
(* never-loaded one up, and are destroyed and created again            *)
(* ------------------------------------------------------------------ *)
NeverLoaded(sp) ==
    {i \in DOMAIN sp.pageTable :
        ~sp.pageTable[i].valid /\ sp.pageTable[i].physicalPage = -1}

LifeFault(s) ==
    /\ nFaults < MaxLifeFaults
    /\ NeverLoaded(spaces[s]) # {}
    /\ Handle(s, Min(NeverLoaded(spaces[s])))
    /\ UNCHANGED sched

NextLife ==
    \/ \E n \in 1 .. NumProgs : Create(Programs[n])
    \/ \E s \in DOMAIN spaces : LifeFault(s)
    \/ \E s \in DOMAIN spaces : Destroy(s)

SpecLife == Init /\ [][NextLife]_vars

(* ------------------------------------------------------------------ *)
(* Long runs of page faults: each fault is on the lowest page of the    *)
(* address space that is not valid                                      *)
(* ------------------------------------------------------------------ *)
NotValid(sp) == DOMAIN sp.pageTable \ {i \in DOMAIN sp.pageTable : sp.pageTable[i].valid}

DrainFault(s) ==
    /\ nFaults < MaxDrainFaults
    /\ spaces[s].vm
    /\ NotValid(spaces[s]) # {}
    /\ Handle(s, Min(NotValid(spaces[s])))
    /\ UNCHANGED sched

NextDrain ==
    \/ \E n \in 1 .. NumProgs : Create(Programs[n])
    \/ \E s \in DOMAIN spaces : DrainFault(s)

SpecDrain == Init /\ [][NextDrain]_vars

(* ------------------------------------------------------------------ *)
(* User threads: Exec, StartProcess, Exit and the page-fault handler   *)
(* taken one blocking swap-file transfer at a time                     *)
(* ------------------------------------------------------------------ *)
\* sched.cur is currentThread (0: none), sched.ready the ready list, sched.space
\* the global "space" of line 33 (-1: NULL), sched.thr the threads made so far.
\* A thread is at pc "forked" (StartProcess not yet run), "user" (user code),
\* "yielded" (in the Yield of line 226), "loading" (in the ReadAt of line 273),
\* "writing" (in the WriteAt of line 284), "reading" (in the ReadAt of line 302)
\* or "done"; sp is its space, made the space its Exec created, r2 what Exec
\* wrote to register 2, page and victim the handler's locals, upc its PCReg, own
\* the space that was created for it (by the kernel or by the Exec that forked it).
NewThread(pc, sp, own) ==
    [pc |-> pc, sp |-> sp, made |-> -1, r2 |-> -1, page |-> -1, victim |-> -1, upc |-> 0,
     own |-> own]

\* AdvancePC(), lines 53-58
AdvancePC(upc) == upc + 4

InHandler(t) == sched.thr[t].pc \in {"loading", "writing", "reading"}

\* the first user program: the kernel builds its space and runs it
Boot(h) ==
    /\ sched.thr = << >>
    /\ Build(h)
    /\ sched' = IF status' = "run"
                THEN [sched EXCEPT !.cur = 1, !.thr = << NewThread("user", last'.s, last'.s) >>]
                ELSE sched

\* Thread::Yield(): the head of the ready list runs, the caller goes to its end
YieldFrom(sc) ==
    IF sc.ready = << >> THEN sc
    ELSE [sc EXCEPT !.cur = Head(sc.ready), !.ready = Append(Tail(sc.ready), sc.cur)]

\* Thread::Finish(): the head of the ready list runs, or nothing does
FinishFrom(sc) ==
    IF sc.ready = << >> THEN [sc EXCEPT !.cur = 0]
    ELSE [sc EXCEPT !.cur = Head(sc.ready), !.ready = Tail(sc.ready)]

\* SC_Exec up to the Yield, lines 217-226
ExecCall(h) ==
    /\ sched.cur \in DOMAIN sched.thr
    /\ sched.thr[sched.cur].pc = "user"
    /\ Len(sched.thr) < MaxThreads
    /\ Build(h)
    /\ sched' = IF status' # "run" THEN sched
                ELSE LET t == sched.cur
                         n == Len(sched.thr) + 1
                     IN YieldFrom([sched EXCEPT
                                     !.space = last'.s,
                                     !.thr = Append([@ EXCEPT ![t].pc = "yielded",
                                                              ![t].made = last'.s],
                                                    NewThread("forked", -1, last'.s)),
                                     !.ready = Append(@, n)])

\* SC_Exec of a name that fileSystem->Open does not find, lines 209-215: the
\* handler returns to the user program
ExecNoFile ==
    /\ status = "run"
    /\ sched.cur \in DOMAIN sched.thr
    /\ sched.thr[sched.cur].pc = "user"
    /\ sched' = sched
    /\ last' = [NoOp EXCEPT !.op = "execfail", !.s = sched.thr[sched.cur].sp]
    /\ UNCHANGED << ThreadMap, bitmap, spaces, vpTable, mainMemory, swap, status,
                    written, nFaults, nAccess, fsvars, test >>

\* StartProcess, lines 39-45
Start ==
    /\ status = "run"
    /\ sched.cur \in DOMAIN sched.thr
    /\ sched.thr[sched.cur].pc = "forked"
    /\ sched' = [sched EXCEPT !.thr[sched.cur].pc = "user",
                              !.thr[sched.cur].sp = sched.space]
    /\ last' = [NoOp EXCEPT !.op = "start", !.s = sched.space]
    /\ UNCHANGED << ThreadMap, bitmap, spaces, vpTable, mainMemory, swap, status,
                    written, nFaults, nAccess, fsvars, test >>

\* SC_Exec after the Yield, lines 229-232
ExecReturn ==
    /\ status = "run"
    /\ sched.cur \in DOMAIN sched.thr
    /\ sched.thr[sched.cur].pc = "yielded"
    /\ sched' = [sched EXCEPT !.thr[sched.cur].pc = "user",
                              !.thr[sched.cur].r2 = sched.space,
                              !.thr[sched.cur].upc = AdvancePC(@)]
    /\ last' = [NoOp EXCEPT !.op = "exec", !.s = sched.space]
    /\ UNCHANGED << ThreadMap, bitmap, spaces, vpTable, mainMemory, swap, status,
                    written, nFaults, nAccess, fsvars, test >>

\* SC_Exit, lines 235-241
Exit ==
    /\ status = "run"
    /\ sched.cur \in DOMAIN sched.thr
    /\ sched.thr[sched.cur].pc = "user"
    /\ sched' = FinishFrom([sched EXCEPT !.thr[sched.cur].pc = "done",
                                         !.thr[sched.cur].upc = AdvancePC(@)])
    /\ last' = [NoOp EXCEPT !.op = "exit", !.s = sched.thr[sched.cur].sp]
    /\ UNCHANGED << ThreadMap, bitmap, spaces, vpTable, mainMemory, swap, status,
                    written, nFaults, nAccess, fsvars, test >>

\* user code of the running thread reads or writes a resident page
UserAccess(page, store) ==
    /\ sched.cur \in DOMAIN sched.thr
    /\ sched.thr[sched.cur].pc = "user"
    /\ sched.thr[sched.cur].sp \in DOMAIN spaces
    /\ page \in DOMAIN spaces[sched.thr[sched.cur].sp].pageTable
    /\ Access(sched.thr[sched.cur].sp, page, store)

\* the running thread waits in a swap-file transfer and the next ready thread runs
BlockAndSwitch(sc, pc, page, victim) ==
    LET b == [sc EXCEPT !.thr[sc.cur].pc = pc, !.thr[sc.cur].page = page,
                        !.thr[sc.cur].victim = victim]
    IN IF sc.ready = << >> THEN b
       ELSE [b EXCEPT !.cur = Head(sc.ready), !.ready = Tail(sc.ready)]

\* the running thread waits in a swap-file transfer (ReadAt, WriteAt): the
\* transfer does not overlap with other computation, no other thread is run
Block(sc, pc, page, victim) ==
    [sc EXCEPT !.thr[sc.cur].pc = pc, !.thr[sc.cur].page = page,
               !.thr[sc.cur].victim = victim]

\* lines 298-301: the entry of the faulting page before its ReadAt
Claim(st, readySwap, page) ==
    [st EXCEPT !.pt[page].physicalPage = st.pt[readySwap].physicalPage,
               !.pt[page].valid = FALSE,
               !.pt[page].use = TRUE,
               !.pt[page].dirty = FALSE]

\* the handler's view of the kernel state
Now(s) == [pt |-> spaces[s].pageTable, sw |-> swap, mem |-> mainMemory, t |-> vpTable,
           log |-> last.log]

\* handler entry, lines 255-272 or 279-284, up to the first swap-file transfer
FaultEnter(page, adj) ==
    LET t == sched.cur
        s == sched.thr[t].sp
        pt == spaces[s].pageTable
    IN
      /\ status = "run"
      /\ nFaults < MaxThreadFaults
      /\ t \in DOMAIN sched.thr
      /\ sched.thr[t].pc = "user"
      /\ s \in DOMAIN spaces
      /\ spaces[s].vm
      /\ page \in DOMAIN pt
      /\ ~pt[page].valid
      /\ nFaults' = nFaults + 1
      /\ UNCHANGED << ThreadMap, written, nAccess, mainMemory, swap, fsvars, test >>
      /\ IF NumClear(bitmap) >= 1 /\ spaces[s].count < MaxPages
         THEN LET f == Find(bitmap) IN
              /\ bitmap' = Mark(bitmap, f)
              /\ spaces' = [spaces EXCEPT ![s].count = @ + 1,
                               ![s].pageTable = [pt EXCEPT ![page].physicalPage = f,
                                                          ![page].valid = TRUE,
                                                          ![page].use = TRUE,
                                                          ![page].dirty = FALSE]]
              /\ UNCHANGED << vpTable, status >>
              /\ last' = [NoOp EXCEPT !.op = "enter", !.s = s, !.page = page]
              /\ sched' = Block(sched, "loading", page, -1)
         ELSE LET r == PageReplace(HandlerPolicy, vpTable, pt, adj)
                  v == r.readySwap
              IN
              /\ vpTable' = IF ~r.ub /\ v \in DOMAIN pt /\ ~pt[v].dirty
                             THEN Release([Now(s) EXCEPT !.t = r.t], v).t
                             ELSE r.t
              /\ bitmap' = bitmap
              /\ last' = [NoOp EXCEPT !.op = "enter", !.s = s, !.page = page,
                                      !.victim = v, !.evicted = TRUE]
              /\ IF r.ub \/ v \notin DOMAIN pt
                 THEN /\ status' = "ub"
                      /\ UNCHANGED << spaces, sched >>
                 ELSE IF pt[v].dirty
                 THEN /\ status' = "run"
                      /\ spaces' = spaces
                      /\ sched' = Block(sched, "writing", page, v)
                 ELSE /\ status' = "run"
                      /\ spaces' = [spaces EXCEPT ![s].pageTable =
                                       Claim(Release([Now(s) EXCEPT !.t = r.t], v),
                                             v, page).pt]
                      /\ sched' = Block(sched, "reading", page, v)

\* the WriteAt of line 284 is done: lines 286-301, up to the ReadAt
SwapWritten ==
    LET t == sched.cur
        s == sched.thr[t].sp
        v == sched.thr[t].victim
        page == sched.thr[t].page
        st == Claim(Release(WriteBack(Now(s), v, page), v), v, page)
    IN
      /\ status = "run"
      /\ t \in DOMAIN sched.thr
      /\ sched.thr[t].pc = "writing"
      /\ swap' = st.sw
      /\ spaces' = [spaces EXCEPT ![s].pageTable = st.pt]
      /\ vpTable' = st.t
      /\ status' = IF spaces[s].pageTable[v].physicalPage \in Frames THEN "run" ELSE "ub"
      /\ last' = [NoOp EXCEPT !.op = "written", !.s = s, !.page = page, !.victim = v]
      /\ sched' = Block(sched, "reading", page, v)
      /\ UNCHANGED << ThreadMap, bitmap, mainMemory, written, nFaults, nAccess, fsvars, test >>

\* the ReadAt of line 273 or 302 is done: lines 305-316 and the return to user code
SwapRead ==
    LET t == sched.cur
        s == sched.thr[t].sp
        v == sched.thr[t].victim
        page == sched.thr[t].page
        pt == spaces[s].pageTable
        f == pt[page].physicalPage
    IN
      /\ status = "run"
      /\ t \in DOMAIN sched.thr
      /\ sched.thr[t].pc \in {"loading", "reading"}
      /\ mainMemory' = IF f \in Frames
                       THEN [mainMemory EXCEPT ![f] = SwapGet(swap, page, @)]
                       ELSE mainMemory
      /\ spaces' = [spaces EXCEPT ![s].pageTable[page].valid = TRUE]
      /\ vpTable' = Insert(vpTable, pt[page].virtualPage)
      /\ status' = IF f \in Frames THEN "run" ELSE "ub"
      /\ last' = [NoOp EXCEPT !.op = "fault", !.s = s, !.page = page, !.victim = v]
      /\ sched' = [sched EXCEPT !.thr[t].pc = "user"]
      /\ UNCHANGED << ThreadMap, bitmap, swap, written, nFaults, nAccess, fsvars, test >>

\* the pages the running thread's program touches
CurPages ==
    IF sched.cur \in DOMAIN sched.thr /\ sched.thr[sched.cur].sp \in DOMAIN spaces
    THEN Touched(spaces[sched.thr[sched.cur].sp])
    ELSE {}

NextThreads ==
    \/ \E n \in 1 .. NumProgs : Boot(Programs[n])
    \/ \E n \in 1 .. NumProgs : ExecCall(Programs[n])
    \/ ExecNoFile
    \/ Start
    \/ ExecReturn
    \/ Exit
    \/ \E page \in CurPages, store \in BOOLEAN : UserAccess(page, store)
    \/ \E page \in CurPages, adj \in AdjWords : FaultEnter(page, adj)
    \/ SwapWritten
    \/ SwapRead

SpecThreads == Init /\ [][NextThreads]_vars

(* ------------------------------------------------------------------ *)
(* The fully eager variant (lab6): AddrSpace::AddrSpace gives every     *)
(* page a frame and copies the code and the initialized data in         *)
(* ------------------------------------------------------------------ *)
\* 9 pages; 22 pages; 40 pages, more than the machine has; not a NOFF executable
EagerPrograms ==
    << Noff(1 * PageSize, 0, 0), Programs[1], Programs[3], Programs[4] >>

\* executable->ReadAt(&mainMemory[addr], size, inFileAddr): the frames that the
\* bytes addr .. addr + size - 1 of memory lie in
CopyFrames(addr, size) == (addr \div PageSize) .. ((addr + size - 1) \div PageSize)

\* memory after that ReadAt: a frame holds the executable from the file offset
\* of the first byte that went into it
CopyIn(mem, addr, size, inFileAddr) ==
    [f \in Frames |->
        IF f \in CopyFrames(addr, size)
        THEN Val("exe", inFileAddr + (IF f * PageSize > addr THEN f * PageSize - addr ELSE 0))
        ELSE mem[f]]

\* lab6 constructor, lines 86-145, for a header h
EagerConstruct(h) ==
    LET numPages == NumPagesOf(h)
        fs == FindSeq(bitmap, numPages)
        pt == [i \in 0 .. (numPages - 1) |-> Entry(i, fs[i + 1], TRUE)]
        code_phy_addr == pt[h.codeVA \div PageSize].physicalPage * PageSize
        data_phy_addr == pt[h.initVA \div PageSize].physicalPage * PageSize
                            + (h.initVA % PageSize)
        cf == IF h.codeSize > 0 THEN CopyFrames(code_phy_addr, h.codeSize) ELSE {}
        df == IF h.initSize > 0 THEN CopyFrames(data_phy_addr, h.initSize) ELSE {}
        mem1 == IF h.codeSize > 0
                THEN CopyIn(mainMemory, code_phy_addr, h.codeSize, h.codeIn)
                ELSE mainMemory
        mem2 == IF h.initSize > 0 THEN CopyIn(mem1, data_phy_addr, h.initSize, h.initIn)
                ELSE mem1
        copied == cf \cup df
    IN  [fits |-> numPages <= NumPhysPages,
         found |-> \A j \in DOMAIN fs : fs[j] # -1,
         space |-> [numPages |-> numPages, count |-> numPages, vm |-> FALSE,
                    pageTable |-> pt],
         bm |-> MarkAll(bitmap, fs),
         mem |-> mem2,
         \* the frames written, lowest first
         log |-> [j \in 1 .. Cardinality(copied) |->
                    <<"copy", CHOOSE f \in copied :
                                 Cardinality({g \in copied : g < f}) = j - 1>>],
         \* a copy that runs past the end of mainMemory
         ub |-> ~(copied \subseteq Frames)]

\* lab6 AddrSpace::AddrSpace, lines 60-147
EagerCreate(h) ==
    /\ status = "run"
    /\ Cardinality(DOMAIN spaces) < MaxSpaces
    /\ LET free == (0 .. (NumSpaceIDs - 1)) \ ThreadMap IN
       IF free = {}
       THEN \* ASSERT(flag), line 73
            /\ status' = "abort"
            /\ last' = [NoOp EXCEPT !.op = "create"]
            /\ UNCHANGED << ThreadMap, bitmap, spaces, mainMemory >>
       ELSE
         LET id == Min(free) IN
           /\ ThreadMap' = MarkID(ThreadMap, id)
           /\ IF ~h.magic \/ NumPagesOf(h) > NumPhysPages
              THEN \* the ASSERTs of lines 84 and 92
                   /\ status' = "abort"
                   /\ last' = [NoOp EXCEPT !.op = "create", !.s = id, !.exe = h]
                   /\ UNCHANGED << bitmap, spaces, mainMemory >>
              ELSE LET r == EagerConstruct(h) IN
                   IF ~r.found
                   THEN \* ASSERT(pageTable[i].physicalPage != -1), line 105
                        /\ status' = "abort"
                        /\ bitmap' = r.bm
                        /\ last' = [NoOp EXCEPT !.op = "create", !.s = id, !.exe = h]
                        /\ UNCHANGED << spaces, mainMemory >>
                   ELSE /\ status' = IF r.ub THEN "ub" ELSE "run"
                        /\ bitmap' = r.bm
                        /\ spaces' = [s \in DOMAIN spaces \cup {id} |->
                                        IF s = id THEN r.space ELSE spaces[s]]
                        /\ mainMemory' = IF r.ub THEN mainMemory ELSE r.mem
                        /\ last' = [NoOp EXCEPT !.op = "create", !.s = id, !.exe = h,
                                                !.log = r.log]
    /\ UNCHANGED << vpTable, swap, written, nFaults, nAccess, sched, fsvars, test >>

\* creates and destroys; the destructor of lab6 (lines 154-162) is the
\* destructor of lab7
NextEager ==
    \/ \E n \in 1 .. Len(EagerPrograms) : EagerCreate(EagerPrograms[n])
    \/ \E s \in DOMAIN spaces : Destroy(s)

SpecEager == Init /\ [][NextEager]_vars

(* ------------------------------------------------------------------ *)
(* The file system (lab4 openfile.cc, lab5 filehdr.cc): one file, its   *)
(* header with a direct table and a secondary index block, and the      *)
(* free-sector map.  A byte of the file is <<k, j>>: byte j of the k-th  *)
(* write; <<0, 0>> is a byte nobody wrote, <<-1, -1>> one of a buffer    *)
(* that was never filled.                                                *)
(* ------------------------------------------------------------------ *)
Sectors == 0 .. (NumSectors - 1)
DirectIdx == 0 .. (NumDirect - 1)
SecondIdx == 0 .. (NumDirect_Second - 1)

\* "int lastIndex = NumDirect - 1;"
lastIndex == NumDirect - 1

\* BitMap::Find, NumClear on the free-sector map
FindSector(fm) == IF Sectors \ fm = {} THEN -1 ELSE Min(Sectors \ fm)
MarkSector(fm, s) == IF s = -1 THEN fm ELSE fm \cup {s}
NumClearSectors(fm) == Cardinality(Sectors \ fm)

\* the results of n consecutive Find() calls starting from fm
RECURSIVE FindSectors(_, _)
FindSectors(fm, n) ==
    IF n <= 0 THEN << >>
    ELSE LET s == FindSector(fm) IN << s >> \o FindSectors(MarkSector(fm, s), n - 1)

Found(fs) == {fs[j] : j \in DOMAIN fs} \ {-1}

\* a FileHeader no field of which has been assigned
NewHeader(jk) == [numBytes |-> 0, numSectors |-> 0, dataSectors |-> [i \in DirectIdx |-> jk]]

DataSector(b) == [kind |-> "data", b |-> b]
IndexSector(a) == [kind |-> "index", a |-> a]

\* synchDisk->WriteSector(s, data) on a sector of the disk
PutSector(dk, s, c) == [x \in DOMAIN dk \cup {s} |-> IF x = s THEN c ELSE dk[x]]

\* synchDisk->ReadSector(s, (char *)dataSectors2): the words of an index block,
\* or whatever the sector holds
ReadIndex(dk, s, jk) ==
    IF s \in DOMAIN dk /\ dk[s].kind = "index" THEN dk[s].a ELSE [i \in SecondIdx |-> jk]

\* FileHeader::Allocate, lines 41-78.  ok is the value returned, got the sectors
\* taken from the map, abort a WriteSector the disk refuses
Allocate(fm, dk, h0, fileSize, jk) ==
    LET numSectors == divRoundUp(fileSize, SectorSize)
        h1 == [h0 EXCEPT !.numBytes = fileSize, !.numSectors = numSectors]
    IN
      IF NumClearSectors(fm) < numSectors \/ NumDirect + NumDirect_Second <= numSectors
      THEN [ok |-> FALSE, hdr |-> h1, fm |-> fm, dk |-> dk, got |-> {}, abort |-> FALSE]
      ELSE IF numSectors < lastIndex
      THEN LET fs == FindSectors(fm, numSectors) IN
           [ok |-> TRUE,
            hdr |-> [h1 EXCEPT !.dataSectors =
                       [i \in DirectIdx |-> IF i < numSectors THEN fs[i + 1]
                                            ELSE IF i = lastIndex THEN -1
                                            ELSE h0.dataSectors[i]]],
            fm |-> fm \cup Found(fs), dk |-> dk, got |-> Found(fs), abort |-> FALSE]
      ELSE LET n2 == IF numSectors > NumDirect THEN numSectors - NumDirect ELSE 0
               fs == FindSectors(fm, NumDirect + n2)
               \* "int dataSectors2[NumDirect_Second];" is not initialized
               dataSectors2 == [i \in SecondIdx |-> IF i < n2 THEN fs[NumDirect + i + 1] ELSE jk]
               ix == fs[NumDirect]
           IN
           [ok |-> TRUE,
            hdr |-> [h1 EXCEPT !.dataSectors = [i \in DirectIdx |-> fs[i + 1]]],
            fm |-> fm \cup Found(fs),
            dk |-> IF ix \in Sectors THEN PutSector(dk, ix, IndexSector(dataSectors2)) ELSE dk,
            got |-> Found(fs),
            abort |-> ix \notin Sectors]

\* FileHeader::ByteToSector, lines 154-165
ByteToSector(h, dk, offset, jk) ==
    IF offset \div SectorSize < lastIndex
    THEN h.dataSectors[offset \div SectorSize]
    ELSE LET dataSectors2 == ReadIndex(dk, h.dataSectors[lastIndex], jk)
             i == offset \div SectorSize - lastIndex
         IN IF i \in SecondIdx THEN dataSectors2[i] ELSE jk

\* the ReadSector of line 162 on a sector the disk does not have
ByteToSectorAborts(h, offset) ==
    offset \div SectorSize >= lastIndex /\ h.dataSectors[lastIndex] \notin Sectors

\* the calls of Deallocate on the free map, in order, as <<sector, tested>>:
\* tested is TRUE for a Clear behind "ASSERT(freeMap->Test(...))", lines 94-116
ClearCalls(h, dk, jk) ==
    IF h.dataSectors[lastIndex] = -1
    THEN [j \in 1 .. h.numSectors |->
            << IF j - 1 \in DirectIdx THEN h.dataSectors[j - 1] ELSE jk, TRUE >>]
    ELSE LET dataSectors2 == ReadIndex(dk, h.dataSectors[lastIndex], jk)
             n2 == IF h.numSectors > lastIndex THEN h.numSectors - lastIndex ELSE 0
         IN [j \in 1 .. (lastIndex + 1 + n2) |->
               IF j <= lastIndex THEN << h.dataSectors[j - 1], TRUE >>
               ELSE IF j = lastIndex + 1 THEN << h.dataSectors[lastIndex], FALSE >>
               ELSE << IF j - lastIndex - 2 \in SecondIdx THEN dataSectors2[j - lastIndex - 2]
                       ELSE jk, FALSE >>]

\* BitMap::Test and BitMap::Clear assert 0 <= which < numBits
RECURSIVE ClearAll(_, _, _)
ClearAll(fm, calls, cleared) ==
    IF calls = << >> THEN [fm |-> fm, cleared |-> cleared, abort |-> FALSE]
    ELSE LET s == Head(calls)[1]
             tested == Head(calls)[2]
         IN IF s \notin Sectors \/ (tested /\ s \notin fm)
            THEN [fm |-> fm, cleared |-> cleared, abort |-> TRUE]
            ELSE ClearAll(fm \ {s}, Tail(calls), cleared \cup {s})

\* FileHeader::Deallocate, lines 87-118
Deallocate(fm, dk, h, jk) == ClearAll(fm, ClearCalls(h, dk, jk), {})

\* FileHeader::extendFile, lines 266-320
extendFile(fm, dk, h, appendSize, jk) ==
    LET restFileSize == SectorSize * h.numSectors - h.numBytes
        moreFileSize == appendSize - restFileSize
        more == divRoundUp(moreFileSize, SectorSize)
        i0 == h.numSectors
        numSectors == h.numSectors + more
        h1 == [h EXCEPT !.numBytes = @ + appendSize, !.numSectors = numSectors]
        same == [ok |-> FALSE, hdr |-> h, fm |-> fm, dk |-> dk, got |-> {}, abort |-> FALSE]
    IN
      IF appendSize <= 0 THEN same
      ELSE IF restFileSize >= appendSize
      THEN [same EXCEPT !.ok = TRUE, !.hdr = [h EXCEPT !.numBytes = @ + appendSize]]
      ELSE IF NumClearSectors(fm) < more \/ NumDirect + NumDirect_Second <= numSectors
      THEN same
      ELSE IF h.dataSectors[lastIndex] = -1
      THEN IF numSectors < lastIndex
           THEN LET fs == FindSectors(fm, numSectors - i0) IN
                [ok |-> TRUE,
                 hdr |-> [h1 EXCEPT !.dataSectors =
                            [i \in DirectIdx |-> IF i0 <= i /\ i < numSectors
                                                 THEN fs[i - i0 + 1] ELSE h.dataSectors[i]]],
                 fm |-> fm \cup Found(fs), dk |-> dk, got |-> Found(fs), abort |-> FALSE]
           ELSE LET nd == IF i0 < lastIndex THEN lastIndex - i0 ELSE 0
                    i1 == IF i0 < lastIndex THEN lastIndex ELSE i0
                    fs == FindSectors(fm, nd + 1 + (numSectors - i1))
                    dataSectors2 ==
                        [i \in SecondIdx |->
                            IF i1 - lastIndex <= i /\ i < numSectors - lastIndex
                            THEN fs[nd + 1 + (i - (i1 - lastIndex)) + 1] ELSE jk]
                    ix == fs[nd + 1]
                IN
                [ok |-> TRUE,
                 hdr |-> [h1 EXCEPT !.dataSectors =
                            [i \in DirectIdx |-> IF i0 <= i /\ i < lastIndex THEN fs[i - i0 + 1]
                                                 ELSE IF i = lastIndex THEN ix
                                                 ELSE h.dataSectors[i]]],
                 fm |-> fm \cup Found(fs),
                 dk |-> IF ix \in Sectors THEN PutSector(dk, ix, IndexSector(dataSectors2))
                        ELSE dk,
                 got |-> Found(fs),
                 abort |-> ix \notin Sectors]
      ELSE LET ix == h.dataSectors[lastIndex]
               old == ReadIndex(dk, ix, jk)
               fs == FindSectors(fm, numSectors - i0)
               dataSectors2 ==
                   [i \in SecondIdx |->
                       IF i0 - lastIndex <= i /\ i < numSectors - lastIndex
                       THEN fs[i - (i0 - lastIndex) + 1] ELSE old[i]]
           IN
           [ok |-> TRUE, hdr |-> h1, fm |-> fm \cup Found(fs),
            dk |-> IF ix \in Sectors THEN PutSector(dk, ix, IndexSector(dataSectors2)) ELSE dk,
            got |-> Found(fs),
            abort |-> ix \notin Sectors]

\* the byte of the file at offset q, as ReadSector of its sector delivers it
FileByte(h, dk, q, jk) ==
    LET s == ByteToSector(h, dk, q, jk) IN
    IF s \in DOMAIN dk /\ dk[s].kind = "data" THEN dk[s].b[q % SectorSize] ELSE << 0, 0 >>

\* a ReadSector or WriteSector for the file's sector at offset q that the disk refuses
SectorAborts(h, dk, q, jk) ==
    ByteToSectorAborts(h, q) \/ ByteToSector(h, dk, q, jk) \notin Sectors

\* OpenFile::ReadAt, lines 111-138: the value returned and the bytes delivered
ReadAt(h, dk, numBytes, position, jk) ==
    LET fileLength == h.numBytes
        n == IF numBytes <= 0 \/ position >= fileLength THEN 0
             ELSE IF position + numBytes > fileLength THEN fileLength - position
             ELSE numBytes
        firstSector == position \div SectorSize
        lastSector == (position + n - 1) \div SectorSize
    IN [ret |-> n,
        bytes |-> [j \in 1 .. n |-> FileByte(h, dk, position + j - 1, jk)],
        abort |-> n > 0 /\ \E i \in firstSector .. lastSector :
                               SectorAborts(h, dk, i * SectorSize, jk)]

\* lines 187-189: the sectors firstSector .. lastSector of the file are written
\* from buf, one WriteSector after the other
RECURSIVE WriteSectors(_, _, _, _, _, _)
WriteSectors(dk, h, i, lastSector, buf, jk) ==
    IF i > lastSector THEN [dk |-> dk, abort |-> FALSE]
    ELSE IF SectorAborts(h, dk, i * SectorSize, jk) THEN [dk |-> dk, abort |-> TRUE]
    ELSE WriteSectors(PutSector(dk, ByteToSector(h, dk, i * SectorSize, jk),
                                DataSector(buf[i])),
                      h, i + 1, lastSector, buf, jk)

\* OpenFile::WriteAt, lines 140-192, with AllocateSpace (lines 209-220); k numbers
\* the bytes of "from"
WriteAt(fm, dk, h, seek, k, numBytes, position, jk) ==
    LET fileLength0 == h.numBytes
        past == seek >= fileLength0
        numSectors == divRoundUp(fileLength0, SectorSize)
        numPos == seek + numBytes
        grows == past /\ numPos > numSectors * SectorSize
        x == IF grows THEN extendFile(fm, dk, h, numPos - numSectors * SectorSize, jk)
             ELSE [ok |-> TRUE, hdr |-> h, fm |-> fm, dk |-> dk, got |-> {}, abort |-> FALSE]
        fileLength == IF grows THEN fileLength0 + numBytes ELSE fileLength0
        \* hdr->setLength(numPos)
        h1 == IF past THEN [x.hdr EXCEPT !.numBytes = numPos] ELSE h
        firstSector == position \div SectorSize
        lastSector == (position + numBytes - 1) \div SectorSize
        firstAligned == position = firstSector * SectorSize
        lastAligned == position + numBytes = (lastSector + 1) * SectorSize
        readFirst == ~firstAligned
        readLast == ~lastAligned /\ (firstSector # lastSector \/ firstAligned)
        filled(i) == (i = firstSector /\ readFirst) \/ (i = lastSector /\ readLast)
        buf == [i \in firstSector .. lastSector |->
                  [o \in 0 .. (SectorSize - 1) |->
                      LET q == i * SectorSize + o IN
                      IF position <= q /\ q < position + numBytes THEN << k, q - position >>
                      ELSE IF filled(i) /\ q < h1.numBytes THEN FileByte(h1, x.dk, q, jk)
                      ELSE << -1, -1 >>]]
        readAborts ==
            \/ readFirst /\ ReadAt(h1, x.dk, SectorSize, firstSector * SectorSize, jk).abort
            \/ readLast /\ ReadAt(h1, x.dk, SectorSize, lastSector * SectorSize, jk).abort
        w == WriteSectors(x.dk, h1, firstSector, lastSector, buf, jk)
    IN
      IF numBytes < 0
      THEN [ret |-> 0, hdr |-> h, fm |-> fm, dk |-> dk, got |-> {}, abort |-> FALSE]
      ELSE IF x.abort \/ fileLength = 0
      THEN [ret |-> 0, hdr |-> h1, fm |-> x.fm, dk |-> x.dk, got |-> x.got, abort |-> x.abort]
      ELSE IF readAborts
      THEN [ret |-> 0, hdr |-> h1, fm |-> x.fm, dk |-> x.dk, got |-> x.got, abort |-> TRUE]
      ELSE [ret |-> numBytes, hdr |-> h1, fm |-> x.fm, dk |-> w.dk, got |-> x.got,
            abort |-> w.abort]

\* no file operation yet
NoRes ==
    [op |-> "none", n |-> 0, position |-> 0, ret |-> 0, bytes |-> << >>, got |-> {},
     map0 |-> {}, cleared |-> {}, pure |-> FALSE,
     wrote |-> [k |-> 0, n |-> 0, position |-> 0, len0 |-> 0]]

\* the free-sector maps a run starts from: a freshly formatted disk (the headers
\* and the data of the free-map file and of the directory), one with two more
\* single sectors in use, and disks with 30 and with 29 sectors left
InitMaps ==
    { 0 .. 4, (0 .. 4) \cup {6, 8},
      0 .. (NumSectors - 31), 0 .. (NumSectors - 30) }

\* words found in memory that was never assigned: no sector, a sector of
\* another file, the last sector of the disk, a number that is no sector
JunkWords == {-1, 0, NumSectors - 1, NumSectors}

FileSizes ==
    {0, 1, 100, SectorSize, (NumDirect - 1) * SectorSize, NumDirect * SectorSize,
     (NumDirect + NumDirect_Second - 1) * SectorSize,
     (NumDirect + NumDirect_Second) * SectorSize}

Lengths == {1, 100, 227}

\* positions of a transfer or a Seek: the start, inside the first sector, and the
\* end of the file
FilePositions == {0, 100, hdr.numBytes}

\* fileSystem->Create: hdr->Allocate(freeMap, initialSize) on a new header
DoAllocate(fileSize) ==
    /\ fstatus = "none"
    /\ LET r == Allocate(freeMap, disk, hdr, fileSize, junk) IN
         /\ hdr' = r.hdr
         /\ freeMap' = r.fm
         /\ disk' = r.dk
         /\ fstatus' = IF r.abort THEN "abort" ELSE IF r.ok THEN "open" ELSE "failed"
         /\ fres' = [NoRes EXCEPT !.op = "allocate", !.n = fileSize, !.got = r.got,
                                  !.map0 = freeMap, !.pure = TRUE]
    /\ UNCHANGED << seekPosition, junk, nFileOps, vmvars, test >>

\* OpenFile::Seek, lines 53-56
DoSeek(position) ==
    /\ fstatus = "open"
    /\ nFileOps < MaxFileOps
    /\ position # seekPosition
    /\ seekPosition' = position
    /\ nFileOps' = nFileOps + 1
    /\ fres' = [fres EXCEPT !.op = "seek", !.position = position, !.bytes = << >>]
    /\ UNCHANGED << freeMap, hdr, disk, junk, fstatus, vmvars, test >>

\* OpenFile::WriteAt(from, numBytes, position), "from" being the bytes of write
\* number nFileOps + 1
DoWriteAt(numBytes, position) ==
    /\ fstatus = "open"
    /\ nFileOps < MaxFileOps
    /\ LET r == WriteAt(freeMap, disk, hdr, seekPosition, nFileOps + 1, numBytes,
                        position, junk)
       IN
         /\ hdr' = r.hdr
         /\ freeMap' = r.fm
         /\ disk' = r.dk
         /\ fstatus' = IF r.abort THEN "abort" ELSE "open"
         /\ fres' = [fres EXCEPT !.op = "write", !.n = numBytes, !.position = position,
                                 !.ret = r.ret, !.bytes = << >>, !.got = @ \cup r.got,
                                 !.pure = FALSE,
                                 !.wrote = [k |-> nFileOps + 1, n |-> numBytes,
                                            position |-> position, len0 |-> hdr.numBytes]]
    /\ nFileOps' = nFileOps + 1
    /\ UNCHANGED << seekPosition, junk, vmvars, test >>

\* OpenFile::Write(into, numBytes), lines 78-83
DoWrite(numBytes) ==
    /\ fstatus = "open"
    /\ nFileOps < MaxFileOps
    /\ LET r == WriteAt(freeMap, disk, hdr, seekPosition, nFileOps + 1, numBytes,
                        seekPosition, junk)
       IN
         /\ hdr' = r.hdr
         /\ freeMap' = r.fm
         /\ disk' = r.dk
         /\ fstatus' = IF r.abort THEN "abort" ELSE "open"
         /\ seekPosition' = seekPosition + r.ret
         /\ fres' = [fres EXCEPT !.op = "append", !.n = numBytes, !.position = seekPosition,
                                 !.ret = r.ret, !.bytes = << >>, !.got = @ \cup r.got,
                                 !.pure = FALSE,
                                 !.wrote = [k |-> nFileOps + 1, n |-> numBytes,
                                            position |-> seekPosition,
                                            len0 |-> hdr.numBytes]]
    /\ nFileOps' = nFileOps + 1
    /\ UNCHANGED << junk, vmvars, test >>

\* OpenFile::ReadAt(into, numBytes, position)
DoReadAt(numBytes, position) ==
    /\ fstatus = "open"
    /\ nFileOps < MaxFileOps
    /\ LET r == ReadAt(hdr, disk, numBytes, position, junk) IN
         /\ fstatus' = IF r.abort THEN "abort" ELSE "open"
         /\ fres' = [fres EXCEPT !.op = "read", !.n = numBytes, !.position = position,
                                 !.ret = r.ret, !.bytes = r.bytes]
    /\ nFileOps' = nFileOps + 1
    /\ UNCHANGED << freeMap, hdr, disk, seekPosition, junk, vmvars, test >>

\* fileSystem->Remove: hdr->Deallocate(freeMap)
DoDeallocate ==
    /\ fstatus = "open"
    /\ LET r == Deallocate(freeMap, disk, hdr, junk) IN
         /\ freeMap' = r.fm
         /\ fstatus' = IF r.abort THEN "abort" ELSE "gone"
         /\ fres' = [fres EXCEPT !.op = "deallocate", !.cleared = r.cleared,
                                 !.bytes = << >>]
    /\ UNCHANGED << hdr, disk, seekPosition, junk, nFileOps, vmvars, test >>

InitFile ==
    /\ InitVM
    /\ TestIdle
    /\ freeMap \in InitMaps
    /\ junk \in JunkWords
    /\ hdr = NewHeader(junk)
    /\ disk = << >>
    /\ seekPosition = 0
    /\ fres = NoRes
    /\ fstatus = "none"
    /\ nFileOps = 0

NextFile ==
    \/ \E fileSize \in FileSizes : DoAllocate(fileSize)
    \/ \E position \in FilePositions : DoSeek(position)
    \/ \E numBytes \in Lengths, position \in FilePositions : DoWriteAt(numBytes, position)
    \/ \E numBytes \in Lengths : DoWrite(numBytes)
    \/ \E numBytes \in Lengths, position \in FilePositions : DoReadAt(numBytes, position)
    \/ DoDeallocate

SpecFile == InitFile /\ [][NextFile]_vars

(* ------------------------------------------------------------------ *)
(* ThreadTest (lab2 threadtest.cc): the caller forks four threads and   *)
(* all five run SimpleThread.  The CPU is handed over only in Yield and *)
(* Finish; which ready thread gets it is the scheduler's choice.        *)
(* ------------------------------------------------------------------ *)
NumLoops == 5

\* the "which" arguments of the four Fork calls, and the priorities set
ForkArgs == << 1, 2, 3, 4 >>
ForkPriority == << 5, 9, 5, 1 >>

TestThreads == {0} \cup {ForkArgs[i] : i \in DOMAIN ForkArgs}

\* nobody runs: every thread has finished
NoThread == -1

InitTest ==
    /\ InitVM
    /\ FileIdle
    /\ test = [cur    |-> 0,
               forked |-> 0,
               ready  |-> {},
               pc     |-> [t \in TestThreads |-> IF t = 0 THEN "fork" ELSE "none"],
               prio   |-> [t \in TestThreads |-> 0],
               num    |-> [t \in TestThreads |-> 0],
               looped |-> [t \in TestThreads |-> 0],
               yields |-> [t \in TestThreads |-> 0]]

\* ThreadTest: t->Fork(SimpleThread, which); t->setPriority(p).  Fork puts the
\* new thread on the ready list and returns to the caller.
TestFork ==
    /\ test # << >>
    /\ test.cur = 0
    /\ test.pc[0] = "fork"
    /\ LET i == test.forked + 1
           t == ForkArgs[i]
       IN test' = [test EXCEPT !.forked = i,
                               !.ready = @ \cup {t},
                               !.pc = [@ EXCEPT ![t] = "loop",
                                                ![0] = IF i = Len(ForkArgs)
                                                       THEN "loop" ELSE "fork"],
                               !.prio[t] = ForkPriority[i]]
    /\ UNCHANGED << vmvars, fsvars >>

\* the test of the for loop of SimpleThread
LoopTestShort(num) == num < NumLoops - 1
LoopTest(num) == num < NumLoops

\* SimpleThread: the loop test passes and the body prints its line
LoopBody(t) ==
    /\ test # << >>
    /\ test.cur = t
    /\ test.pc[t] = "loop"
    /\ LoopTest(test.num[t])
    /\ test' = [test EXCEPT !.looped[t] = @ + 1, !.pc[t] = "yield"]
    /\ UNCHANGED << vmvars, fsvars >>

\* SimpleThread: currentThread->Yield(), then num++.  The caller goes back to
\* the ready list and the scheduler runs a ready thread, possibly the caller.
Yield(t, next) ==
    /\ test # << >>
    /\ test.cur = t
    /\ test.pc[t] = "yield"
    /\ next \in test.ready \cup {t}
    /\ test' = [test EXCEPT !.yields[t] = @ + 1,
                            !.num[t] = @ + 1,
                            !.pc[t] = "loop",
                            !.ready = (@ \cup {t}) \ {next},
                            !.cur = next]
    /\ UNCHANGED << vmvars, fsvars >>

\* SimpleThread returns and the thread finishes: the scheduler runs a ready
\* thread if there is one
Return(t, next) ==
    /\ test # << >>
    /\ test.cur = t
    /\ test.pc[t] = "loop"
    /\ ~LoopTest(test.num[t])
    /\ next \in (IF test.ready = {} THEN {NoThread} ELSE test.ready)
    /\ test' = [test EXCEPT !.pc[t] = "done",
                            !.ready = @ \ {next},
                            !.cur = next]
    /\ UNCHANGED << vmvars, fsvars >>

NextTest ==
    \/ TestFork
    \/ \E t \in TestThreads : LoopBody(t)
    \/ \E t \in TestThreads, next \in TestThreads : Yield(t, next)
    \/ \E t \in TestThreads, next \in TestThreads \cup {NoThread} : Return(t, next)

\* the CPU always executes the running thread
SpecTest == InitTest /\ [][NextTest]_vars /\ WF_vars(NextTest)

(* ------------------------------------------------------------------ *)
(* Properties                                                          *)
(* ------------------------------------------------------------------ *)
\* the valid page-table entries of the live address spaces
ValidEntries ==
    UNION { { <<s, i>> : i \in {j \in DOMAIN spaces[s].pageTable :
                                    spaces[s].pageTable[j].valid} } : s \in DOMAIN spaces }

FrameOf(e) == spaces[e[1]].pageTable[e[2]].physicalPage

\* C1: while the kernel runs, the number of set bits of the frame bitmap equals
\* the number of valid page-table entries of all live address spaces.
C1_UsedFramesEqualValidEntries ==
    status = "run" => Cardinality(bitmap) = Cardinality(ValidEntries)

\* C2: while the kernel runs, no two valid page-table entries, of one address
\* space or of two, have the same physicalPage.
C2_NoSharedFrame ==
    status = "run" =>
        \A e1, e2 \in ValidEntries : e1 # e2 => FrameOf(e1) # FrameOf(e2)

\* C3: every valid page-table entry holds a real frame index, 0 <= physicalPage <
\* NumPhysPages, whose bit is set in the bitmap, also right after a create.
C3_ValidEntryHoldsFrame ==
    status = "run" =>
        \A e \in ValidEntries : FrameOf(e) \in Frames /\ FrameOf(e) \in bitmap

\* C4: round trip through swap.  The frame of a resident page that a user
\* program has stored to holds the value last stored to that page, also after
\* the page was evicted and faulted in again; and a value stored by a user
\* program is found only in the frame of the page it was stored to.
C4_SwapRoundTrip ==
    status = "run" =>
        \A e \in {x \in ValidEntries : FrameOf(x) \in Frames} :
            /\ e \in DOMAIN written => mainMemory[FrameOf(e)] = written[e]
            /\ mainMemory[FrameOf(e)].k = "usr" =>
                   e \in DOMAIN written /\ written[e] = mainMemory[FrameOf(e)]

\* C5: under FIFO the victim is the page that has been resident longest, the
\* head of the working-set table: of p1, p2, p3 loaded in this order, p1 goes
\* first and p2 second.
C5_FIFOEvictsOldest ==
    [][ (last'.op = "replace" /\ last'.type = "FIFO" /\ NumLoaded(vpTable) >= 1)
        => last'.victim = vpTable[0] ]_vars

\* C6: under LIFO PageReplace returns the most recently loaded resident page,
\* and the pages loaded before it stay in the working-set table in their order.
C6_LIFOEvictsNewest ==
    [][ (last'.op = "replace" /\ last'.type = "LIFO" /\ NumLoaded(vpTable) >= 1) =>
            LET k == NumLoaded(vpTable) IN
              /\ last'.victim = vpTable[k - 1]
              /\ vpTable' = [vpTable EXCEPT ![k - 1] = -1] ]_vars

\* the pages in the working-set table for which flag(entry) holds
TablePages(flag(_)) ==
    { vpTable[j] : j \in {i \in Loaded(vpTable) :
                             /\ vpTable[i] \in DOMAIN spaces[0].pageTable
                             /\ flag(spaces[0].pageTable[vpTable[i]])} }

Unreferenced(e) == ~e.use
UnreferencedClean(e) == ~e.use /\ ~e.dirty

\* C7: under CLOCK a page whose use bit is set when the scan reaches it is not
\* chosen by that scan: when the table holds a page with use = FALSE, the victim
\* is a page of the table with use = FALSE.
C7_ClockSparesReferenced ==
    [][ (last'.op = "replace" /\ last'.type = "CLOCK" /\ status' = "run"
            /\ TablePages(Unreferenced) # {})
        => last'.victim \in TablePages(Unreferenced) ]_vars

\* C8: under ENHANCED_CLOCK, when the table holds a page with use = FALSE and
\* dirty = FALSE, the victim is such a page.
C8_EnhancedClockPrefersClean ==
    [][ (last'.op = "replace" /\ last'.type = "ENHANCED_CLOCK" /\ status' = "run"
            /\ TablePages(UnreferencedClean) # {})
        => last'.victim \in TablePages(UnreferencedClean) ]_vars

\* the positions of the log entries of one kind
At(log, kind) == {i \in DOMAIN log : log[i][1] = kind}

\* C9: an eviction of a dirty victim writes the swap file exactly once, before
\* the victim is made not valid and before the faulting page is read in; an
\* eviction of a clean victim does not write the swap file.
C9_DirtyVictimWrittenOnceFirst ==
    (status = "run" /\ last.op = "fault" /\ last.evicted) =>
        LET log == last.log IN
          /\ At(log, "invalid") # {} /\ At(log, "read") # {}
          /\ IF last.victimDirty
             THEN /\ Cardinality(At(log, "write")) = 1
                  /\ \A w \in At(log, "write") :
                        /\ log[w] = <<"write", last.victim>>
                        /\ \A i \in At(log, "invalid") \cup At(log, "read") : w < i
             ELSE At(log, "write") = {}

\* a dirty victim has been evicted
C9_Witness ==
    /\ status = "run" /\ last.op = "fault" /\ last.evicted /\ last.victimDirty
    /\ At(last.log, "write") # {}

\* C10: a page fault on a page at or past numPages ends fatally and changes
\* neither the bitmap, nor a residency counter or page table, nor the
\* working-set table.
C10_UnmappedFaultChangesNothing ==
    [][ (last'.op = "fault" /\ last'.s \in DOMAIN spaces
            /\ last'.page >= spaces[last'.s].numPages)
        => /\ status' # "run"
           /\ bitmap' = bitmap
           /\ spaces' = spaces
           /\ vpTable' = vpTable ]_vars

\* C11: a destroy of an address space, whatever pages it has never loaded or has
\* lost to evictions, completes; afterwards its spaceID is free and every frame
\* one of its valid entries held is clear.
C11_DestroyCompletes ==
    [][ last'.op = "destroy" =>
          LET pt == spaces[last'.s].pageTable IN
            /\ status' = "run"
            /\ last'.s \notin ThreadMap'
            /\ \A i \in DOMAIN pt : pt[i].valid => pt[i].physicalPage \notin bitmap' ]_vars

\* C12: while the kernel runs the spaceIDs marked in ThreadMap are exactly the
\* spaceIDs of the live address spaces (one address space per ID).
C12_ThreadMapIsLiveIDs ==
    status = "run" => ThreadMap = DOMAIN spaces

\* spaceID 0 is given to a create while spaceID 1 is live: ID 0 was in use when
\* ID 1 was given, a destroy has released it, and a later create has it again
C12_Witness ==
    /\ status = "run" /\ last.op = "create" /\ last.s = 0
    /\ 1 \in DOMAIN spaces /\ ThreadMap = {0, 1}

\* C13: a create that cannot succeed, the executable's magic being wrong also
\* after the byte swap, fails the load and leaves the kernel running.
C13_LoadErrorKeepsKernelRunning ==
    [][ (last'.op = "create" /\ last'.type = "bad magic") => status' = "run" ]_vars

\* C14: right after the create of a program of at most MinPages pages, every
\* page-table entry of the new address space is valid and holds a frame, and the
\* address space has no swap file.
C14_SmallProgramFullyResident ==
    (status = "run" /\ last.op = "create" /\ last.s \in DOMAIN spaces
        /\ spaces[last.s].numPages <= MinPages)
    => /\ ~spaces[last.s].vm
       /\ \A i \in DOMAIN spaces[last.s].pageTable :
             /\ spaces[last.s].pageTable[i].valid
             /\ spaces[last.s].pageTable[i].physicalPage \in Frames

\* C15: right after the create of a demand-paged address space the swap file
\* holds the full image: every page of the code segment and of the
\* initialized-data segment, the last one included, is in the swap file at its
\* virtual address with the executable's contents at the segment's file offset
\* plus the page's offset in the segment.
C15_SwapHoldsFullImage ==
    (status = "run" /\ last.op = "create" /\ last.s \in DOMAIN spaces
        /\ spaces[last.s].vm)
    => LET h == last.exe IN
       \A p \in 0 .. (spaces[last.s].numPages - 1) :
          /\ (h.codeVA <= p * PageSize /\ p * PageSize < h.codeVA + h.codeSize)
                => /\ p \in DOMAIN swap
                   /\ swap[p] = Val("exe", h.codeIn + (p * PageSize - h.codeVA))
          /\ (h.initVA <= p * PageSize /\ p * PageSize < h.initVA + h.initSize)
                => /\ p \in DOMAIN swap
                   /\ swap[p] = Val("exe", h.initIn + (p * PageSize - h.initVA))

\* C16: a page fault of a demand-paged address space on one of its pages
\* (vpn < numPages) is served to the end, whatever the working-set table holds,
\* and leaves the faulting page valid.
C16_FaultCompletes ==
    [][ (last'.op = "fault" /\ last'.s \in DOMAIN spaces /\ spaces[last'.s].vm
            /\ last'.page < spaces[last'.s].numPages)
        => /\ status' = "run"
           /\ spaces'[last'.s].pageTable[last'.page].valid ]_vars


\* the slots of the working-set table that hold page p
SlotsOf(p) == {j \in Slots : vpTable[j] = p}

\* C18: in every state reached by creations and page faults, the non-empty
\* entries of vpTable are exactly the valid pages of the live address spaces:
\* every non-empty entry is the page of exactly one address space that holds it
\* valid, every valid page has exactly one entry, and no more than MaxPages
\* entries are in use.
C18_TableIsResidentSet ==
    status = "run" =>
        /\ \A j \in Slots : vpTable[j] # -1 =>
              Cardinality({e \in ValidEntries : e[2] = vpTable[j]}) = 1
        /\ \A e \in ValidEntries : Cardinality(SlotsOf(e[2])) = 1
        /\ Cardinality({j \in Slots : vpTable[j] # -1}) <= MaxPages

\* C20: a create by, or a page fault (load or eviction) of, one address space
\* leaves unchanged every swap page that the page faults of another live
\* demand-paged address space are served from.
C20_SwapRegionIsPrivate ==
    [][ (status' = "run" /\ last'.op \in {"create", "fault"}) =>
          \A o \in DOMAIN spaces \ {last'.s} :
              spaces[o].vm =>
                  \A p \in 0 .. (spaces[o].numPages - 1) :
                      p \in DOMAIN swap => (p \in DOMAIN swap' /\ swap'[p] = swap[p]) ]_vars

\* C19: whenever an Exec call has written register 2, the value is the spaceID
\* of the address space that this call created, whatever ran during its Yield.
C19_ExecReturnsOwnSpaceID ==
    \A t \in DOMAIN sched.thr :
        sched.thr[t].r2 # -1 => sched.thr[t].r2 = sched.thr[t].made

\* C17: a thread that is inside the page-fault handler, its swap-file transfers
\* included, is the running thread: no other thread takes a step between the
\* handler's entry and its return, so none sees the victim demoted and the
\* faulting page not yet valid.
C17_HandlerRunsAlone ==
    \A t \in DOMAIN sched.thr : InHandler(t) => sched.cur = t

\* a thread waits in the ReadAt of an eviction, its victim demoted and its page
\* not valid, while another thread is ready to run
C17_Witness ==
    /\ status = "run"
    /\ sched.ready # << >>
    /\ \E t \in DOMAIN sched.thr :
          /\ sched.thr[t].pc = "reading"
          /\ ~spaces[sched.thr[t].sp].pageTable[sched.thr[t].victim].valid
          /\ ~spaces[sched.thr[t].sp].pageTable[sched.thr[t].page].valid

\* the number of slots of table t that hold page p
Times(t, p) == Cardinality({j \in Slots : t[j] = p})

\* C21: a page fault on a page below numPages that is served without eviction
\* leaves the faulting entry valid, referenced and clean in a frame that was
\* free, grows the residency counter and the number of used frames by one, has
\* the page exactly once in vpTable, and changes no other page-table entry and
\* no other vpTable slot.
C21_LoadFaultEffect ==
    [][ (status = "run" /\ last'.op = "fault" /\ ~last'.evicted
            /\ last'.s \in DOMAIN spaces /\ spaces[last'.s].vm
            /\ last'.page < spaces[last'.s].numPages)
        => LET s == last'.s
               page == last'.page
               e == spaces'[s].pageTable[page]
           IN /\ status' = "run"
              /\ e.valid /\ e.use /\ ~e.dirty
              /\ e.physicalPage \in Frames \ bitmap
              /\ spaces'[s].count = spaces[s].count + 1
              /\ Cardinality(bitmap') = Cardinality(bitmap) + 1
              /\ Times(vpTable', page) = 1
              /\ \A o \in DOMAIN spaces : \A i \in DOMAIN spaces[o].pageTable :
                    (o # s \/ i # page) => spaces'[o].pageTable[i] = spaces[o].pageTable[i]
              /\ Cardinality({j \in Slots : vpTable'[j] # vpTable[j]}) = 1 ]_vars

\* C22: a page fault served by eviction leaves the victim not valid and out of
\* vpTable, the faulting page valid, referenced, clean, in vpTable and in the
\* frame the victim held, the residency counter and the used frames as they
\* were, and every other page that was in vpTable still in it.
C22_EvictFaultEffect ==
    [][ (status = "run" /\ status' = "run" /\ last'.op = "fault" /\ last'.evicted
            /\ last'.s \in DOMAIN spaces
            /\ last'.page < spaces[last'.s].numPages)
        => LET s == last'.s
               page == last'.page
               v == last'.victim
               e == spaces'[s].pageTable[page]
           IN /\ ~spaces'[s].pageTable[v].valid
              /\ Times(vpTable', v) = 0
              /\ e.valid /\ e.use /\ ~e.dirty
              /\ Times(vpTable', page) >= 1
              /\ e.physicalPage = spaces[s].pageTable[v].physicalPage
              /\ spaces'[s].count = spaces[s].count
              /\ bitmap' = bitmap
              /\ \A j \in Slots :
                    (vpTable[j] # -1 /\ vpTable[j] # v) => Times(vpTable', vpTable[j]) >= 1 ]_vars

\* C23: the write-back of a dirty victim v puts the victim's frame into swap
\* page v and changes no other swap page, the faulting page's among them.
C23_WriteBackAtVictimOffset ==
    [][ (status = "run" /\ status' = "run" /\ last'.op = "fault" /\ last'.evicted
            /\ last'.victimDirty /\ last'.s \in DOMAIN spaces)
        => LET v == last'.victim
               f == spaces[last'.s].pageTable[v].physicalPage
           IN /\ v \in DOMAIN swap'
              /\ swap'[v] = mainMemory[f]
              /\ \A p \in DOMAIN swap : p # v => swap'[p] = swap[p] ]_vars

\* C24: while the kernel runs, a page-table entry that is not valid holds no
\* frame: its physicalPage is -1, so it names no frame another entry uses.
C24_InvalidEntryHoldsNoFrame ==
    status = "run" =>
        \A s \in DOMAIN spaces : \A i \in DOMAIN spaces[s].pageTable :
            ~spaces[s].pageTable[i].valid => spaces[s].pageTable[i].physicalPage = -1

\* the pages address space sp holds valid
ValidPages(sp) == {i \in DOMAIN sp.pageTable : sp.pageTable[i].valid}

\* C25: while the kernel runs, after a create and after every page fault, the
\* field count of every live address space is the number of its valid entries.
C25_CountIsValidEntries ==
    (status = "run" /\ last.op \in {"create", "fault"}) =>
        \A s \in DOMAIN spaces : spaces[s].count = Cardinality(ValidPages(spaces[s]))

\* the pages of a segment at virtual address va that a create loads eagerly,
\* at most cap of them (lines 172-173 and 219-224)
EagerPages(va, size, cap) ==
    LET start == divRoundUp(va, PageSize)
        n == Min({divRoundUp(size, PageSize), cap})
    IN start .. (start + n - 1)

\* C26: right after a create, the frame of every eagerly loaded page i of the
\* code or the initialized-data segment holds the executable's bytes at the
\* segment's file offset plus (i - the segment's first page) * PageSize.
C26_EagerLoadOffsets ==
    (status = "run" /\ last.op = "create" /\ last.s \in DOMAIN spaces) =>
        LET h == last.exe
            pt == spaces[last.s].pageTable
            Holds(i, off) == pt[i].physicalPage \in Frames =>
                                mainMemory[pt[i].physicalPage] = Val("exe", off)
        IN /\ \A i \in EagerPages(h.codeVA, h.codeSize, CodePages) :
                 Holds(i, h.codeIn + (i - divRoundUp(h.codeVA, PageSize)) * PageSize)
           /\ \A i \in EagerPages(h.initVA, h.initSize, DataPages) :
                 Holds(i, h.initIn + (i - divRoundUp(h.initVA, PageSize)) * PageSize)

\* C27: whenever the handler evicts, the victim PageReplace returned is a page
\* below numPages of the faulting address space whose entry is valid there
\* when it is chosen.
C27_VictimIsResidentPage ==
    [][ (status = "run" /\ status' = "run" /\ last'.op = "fault" /\ last'.evicted
            /\ last'.s \in DOMAIN spaces)
        => /\ last'.victim \in 0 .. (spaces[last'.s].numPages - 1)
           /\ spaces[last'.s].pageTable[last'.victim].valid ]_vars

\* C28: whenever the handler calls PageReplace, vpTable holds at least one
\* entry, at its front where the scan of PageReplace starts, however many
\* evictions came before.
C28_PolicySeesNonEmptyTable ==
    [][ (status = "run" /\ last'.op = "fault" /\ last'.evicted)
        => NumLoaded(vpTable) >= 1 ]_vars

\* evictions have drained vpTable down to a single entry, the page just loaded
C28_Witness ==
    /\ status = "run"
    /\ last.op = "fault"
    /\ last.evicted
    /\ vpTable[0] = last.page
    /\ \A j \in Slots \ {0} : vpTable[j] = -1

\* C29: a page fault whose swap-file read is short (the page lies at or past
\* the end of the swap file, so ReadAt transfers nothing) ends in an explicit
\* fatal outcome and does not make the faulting page valid (faults that run
\* into undefined behaviour for another reason are left aside).
C29_ShortReadIsFatal ==
    [][ (status = "run" /\ status' # "ub" /\ last'.op = "fault"
            /\ last'.s \in DOMAIN spaces /\ spaces[last'.s].vm
            /\ last'.page \in DOMAIN spaces[last'.s].pageTable
            /\ last'.page \notin DOMAIN swap)
        => /\ status' = "abort"
           /\ ~spaces'[last'.s].pageTable[last'.page].valid ]_vars

\* C30: every system call that returns to the user program (Exec, with or
\* without a file it could open) has advanced the program counter of the
\* calling thread, so the call is not executed again.
C30_SyscallAdvancesPC ==
    [][ (last'.op \in {"exec", "execfail"} /\ sched.cur \in DOMAIN sched.thr)
        => sched'.thr[sched.cur].upc = sched.thr[sched.cur].upc + 4 ]_vars

\* C31: a thread forked by an Exec call runs, from its StartProcess on, in the
\* address space that this Exec call created, whatever threads ran between the
\* Fork and the StartProcess.
C31_ForkedThreadStartsInOwnSpace ==
    \A t \in DOMAIN sched.thr :
        sched.thr[t].pc # "forked" => sched.thr[t].sp = sched.thr[t].own

\* C32: a create leaves the residency bookkeeping of every address space that is
\* live already as it was: its page table, its residency counter, and the slots
\* of vpTable that held its pages.
C32_CreateKeepsOtherSpaces ==
    [][ (status = "run" /\ status' = "run" /\ last'.op = "create")
        => /\ \A o \in DOMAIN spaces : o \in DOMAIN spaces' /\ spaces'[o] = spaces[o]
           /\ \A j \in Slots : vpTable[j] # -1 => vpTable'[j] = vpTable[j] ]_vars

\* the calls bitmap->Clear(pageTable[i].physicalPage) the destructor makes for
\* page table pt, as pairs <<i, frame>>: the loop of lines 275-276 runs until a
\* call fails the assertion of Clear
ClearArgs(pt) ==
    { <<i, pt[i].physicalPage>> : i \in
        {k \in DOMAIN pt : \A j \in 0 .. (k - 1) : pt[j].physicalPage \in Frames} }

\* C33: the destroy of address space S calls Clear only with frame indices in
\* 0 .. NumPhysPages - 1 that a valid entry of S holds: never with -1, and never
\* with a frame that a valid entry of another live address space holds.
C33_DestroyClearsOwnFrames ==
    [][ (status = "run" /\ last'.op = "destroy") =>
          \A c \in ClearArgs(spaces[last'.s].pageTable) :
              /\ c[2] \in Frames
              /\ \E i \in ValidPages(spaces[last'.s]) :
                    spaces[last'.s].pageTable[i].physicalPage = c[2]
              /\ \A e \in ValidEntries : e[1] # last'.s => FrameOf(e) # c[2] ]_vars

\* C34: in the fully eager variant, a create that succeeds gives every page of
\* the new address space a valid entry and a frame of its own that was free
\* before, and copies code and initialized data only into frames of the new
\* address space, also when the free frames are not contiguous.
C34_EagerCreateOwnFrames ==
    [][ (status = "run" /\ status' = "run" /\ last'.op = "create") =>
          LET pt == spaces'[last'.s].pageTable
              own == {pt[i].physicalPage : i \in DOMAIN pt}
          IN /\ DOMAIN pt = 0 .. (spaces'[last'.s].numPages - 1)
             /\ \A i \in DOMAIN pt : pt[i].valid /\ pt[i].physicalPage \in Frames \ bitmap
             /\ Cardinality(own) = spaces'[last'.s].numPages
             /\ \A k \in DOMAIN last'.log : last'.log[k][2] \in own ]_vars

\* C35: for FIFO, LIFO, CLOCK and ENHANCED_CLOCK, on every table PageReplace is
\* called with (a full one and one whose first entry is eligible at once
\* included), the call reads and writes vpTable only at indices
\* 0 .. MaxPages - 1 and reads page-table entries only at 0 .. numPages - 1.
C35_PolicyStaysInBounds ==
    [][ last'.op = "replace" =>
          \A adj \in AdjWords :
              LET pt == spaces[0].pageTable
                  r == PageReplace(last'.type, vpTable, pt, adj)
              IN (r.t = vpTable' /\ r.readySwap = last'.victim) =>
                    /\ VpTouched(last'.type, vpTable, pt, adj) \subseteq Slots
                    /\ PtTouched(last'.type, vpTable, pt, adj) \subseteq DOMAIN pt ]_vars

\* C36: after a successful Allocate(freeMap, fileSize) the header maps every
\* byte offset below fileSize, through ByteToSector, to a sector that Allocate
\* took from freeMap; the divRoundUp(fileSize, SectorSize) data sectors are
\* pairwise distinct and none is -1, with and without the secondary index block.
C36_AllocateMapsEveryByte ==
    (fstatus = "open" /\ fres.op = "allocate") =>
        LET n == divRoundUp(fres.n, SectorSize)
            SectorOf(i) == ByteToSector(hdr, disk, i * SectorSize, junk)
        IN /\ \A q \in {i * SectorSize : i \in 0 .. (n - 1)} \cup {fres.n - 1} :
                 q >= 0 => /\ ~ByteToSectorAborts(hdr, q)
                           /\ ByteToSector(hdr, disk, q, junk) \in fres.got
                           /\ ByteToSector(hdr, disk, q, junk) # -1
           /\ \A i, j \in 0 .. (n - 1) : i # j => SectorOf(i) # SectorOf(j)

\* C37: Allocate followed by Deallocate on the same header leaves the
\* free-sector map exactly as it was before the Allocate, for every file size
\* Allocate accepts, and Deallocate clears only sectors the Allocate obtained.
C37_DeallocateRestoresMap ==
    (fres.op = "deallocate" /\ fres.pure) =>
        /\ fstatus = "gone"
        /\ freeMap = fres.map0
        /\ fres.cleared \subseteq fres.got

\* C38: after any sequence of Allocate, extendFile, setLength and WriteAt calls
\* the length of the file is within its allocated sectors,
\* numBytes <= numSectors * SectorSize.
C38_LengthWithinSectors ==
    fstatus = "open" => hdr.numBytes <= hdr.numSectors * SectorSize

\* C39: WriteAt(from, n, position) followed by ReadAt(into, n, position), the
\* write lying within the file or extending it, returns n and delivers the n
\* bytes written, whatever seekPosition is.
C39_WriteReadRoundTrip ==
    (fstatus = "open" /\ fres.op = "read" /\ fres.wrote.k # 0
        /\ fres.n = fres.wrote.n /\ fres.position = fres.wrote.position
        /\ fres.wrote.position <= fres.wrote.len0)
    => /\ fres.ret = fres.n
       /\ fres.bytes = [j \in 1 .. fres.n |-> << fres.wrote.k, j - 1 >>]

\* what holds of every thread of ThreadTest at every moment
TestSteady ==
    \A t \in TestThreads :
        /\ test.looped[t] <= 5
        /\ test.yields[t] \in {test.looped[t] - 1, test.looped[t]}
        /\ test.pc[t] = "yield" <=> test.yields[t] # test.looped[t]
        /\ test.pc[t] = "done" => (test.looped[t] = 5 /\ test.yields[t] = 5)
AllFinished == \A t \in TestThreads : test.pc[t] = "done"

=============================================================================
